---- MODULE Spec2Model ----
(***************************************************************************)
(* Model of apps/url-metadata-extractor/main.py: the POST /extract handler *)
(* (extract_metadata), the extractors it calls and the merge and           *)
(* sanitization of their results.                                          *)
(*                                                                         *)
(* A Python str is a sequence of characters; a character is a one-letter   *)
(* TLA+ string, or a "U+XXXX" token for a non-ASCII code point.  A Python  *)
(* value is a tagged record (None, Str, PyInt, Dict, List); a Python dict    *)
(* with string keys is a function whose DOMAIN is the set of its keys.     *)
(***************************************************************************)
EXTENDS Integers, Sequences, FiniteSets, TLC

(***************************************************************************)
(* Characters and str methods                                              *)
(***************************************************************************)
Chars(s) == [i \in 1..Len(s) |-> SubSeq(s, i, i)]

UpperLetters == Chars("ABCDEFGHIJKLMNOPQRSTUVWXYZ")
LowerLetters == Chars("abcdefghijklmnopqrstuvwxyz")
Digits == Chars("0123456789")

E_ACUTE == "U+00E9"      \* e with acute accent, a lower-case letter
E_ACUTE_UP == "U+00C9"   \* its upper-case form
EM_DASH == "U+2014"      \* punctuation
PARTY == "U+1F389"       \* an emoji
NBSP == "U+00A0"         \* no-break space: str.isspace() is true of it

Range(q) == {q[i] : i \in DOMAIN q}

IsAsciiUpper(c) == c \in Range(UpperLetters)
IsAsciiLower(c) == c \in Range(LowerLetters)
IsDigit(c) == c \in Range(Digits)

\* str.isspace() of one character; also what \s matches in a str pattern
IsSpace(c) == c \in {" ", "\t", "\n", "\r", NBSP}

\* what \w matches in a str pattern (re.UNICODE is the default for str):
\* every character str.isalnum() is true of, and the underscore
IsWord(c) ==
    \/ IsAsciiUpper(c) \/ IsAsciiLower(c) \/ IsDigit(c)
    \/ c \in {E_ACUTE, E_ACUTE_UP}
    \/ c = "_"

IndexIn(q, c) == CHOOSE i \in DOMAIN q : q[i] = c

LowerChar(c) ==
    IF IsAsciiUpper(c) THEN LowerLetters[IndexIn(UpperLetters, c)]
    ELSE IF c = E_ACUTE_UP THEN E_ACUTE
    ELSE c

UpperChar(c) ==
    IF IsAsciiLower(c) THEN UpperLetters[IndexIn(LowerLetters, c)]
    ELSE IF c = E_ACUTE THEN E_ACUTE_UP
    ELSE c

\* str.lower()
Lower(s) == [i \in 1..Len(s) |-> LowerChar(s[i])]

\* str.capitalize(): first character upper-cased, the rest lower-cased
Capitalize(s) ==
    [i \in 1..Len(s) |-> IF i = 1 THEN UpperChar(s[i]) ELSE LowerChar(s[i])]

\* s[p:p+len(w)] == w
MatchAt(s, p, w) ==
    /\ p + Len(w) - 1 <= Len(s)
    /\ \A k \in 1..Len(w) : s[p + k - 1] = w[k]

\* str.startswith
StartsWith(s, w) == MatchAt(s, 1, w)

\* w in s
Contains(s, w) ==
    \E p \in 1..(Len(s) - Len(w) + 1) : SubSeq(s, p, p + Len(w) - 1) = w

\* str.strip(): leading and trailing whitespace removed
Strip(s) ==
    LET keep == {i \in 1..Len(s) : ~IsSpace(s[i])}
    IN  IF keep = {} THEN <<>>
        ELSE LET lo == CHOOSE i \in keep : \A j \in keep : i <= j
                 hi == CHOOSE i \in keep : \A j \in keep : j <= i
             IN  SubSeq(s, lo, hi)

\* the characters of s that are in keepSet, in order
RECURSIVE Filter(_, _)
Filter(s, keepSet) ==
    IF s = <<>> THEN <<>>
    ELSE IF Head(s) \in keepSet THEN <<Head(s)>> \o Filter(Tail(s), keepSet)
    ELSE Filter(Tail(s), keepSet)

(***************************************************************************)
(* Python values                                                           *)
(***************************************************************************)
None == [t |-> "None"]
Str(s) == [t |-> "str", v |-> s]
PyInt(n) == [t |-> "int", v |-> n]
Dict(f) == [t |-> "dict", v |-> f]
List(q) == [t |-> "list", v |-> q]
S(lit) == Str(Chars(lit))

EmptyDict == [k \in {} |-> None]

\* bool(x)
Truthy(x) ==
    CASE x.t = "None" -> FALSE
      [] x.t = "str" -> Len(x.v) > 0
      [] x.t = "int" -> x.v # 0
      [] x.t = "dict" -> DOMAIN x.v # {}
      [] x.t = "list" -> Len(x.v) > 0
      [] OTHER -> TRUE

\* a or b
Or(a, b) == IF Truthy(a) THEN a ELSE b

\* d.get(k) and d.get(k, default) of a dict d
Get(d, k) == IF k \in DOMAIN d THEN d[k] ELSE None
GetDefault(d, k, dflt) == IF k \in DOMAIN d THEN d[k] ELSE dflt

\* d.update(e)
Update(d, e) ==
    [k \in DOMAIN d \cup DOMAIN e |-> IF k \in DOMAIN e THEN e[k] ELSE d[k]]

\* the result of a call: a value, or the exception it raised
Return(x) == [exc |-> "", val |-> x]
Raise(e) == [exc |-> e, val |-> None]

(***************************************************************************)
(* _extract_address                                                        *)
(***************************************************************************)
AddressKeys ==
    <<"streetAddress", "addressLocality", "addressRegion", "postalCode",
      "addressCountry">>

\* sep.join(parts) of a sequence of str values
RECURSIVE Join(_, _)
Join(parts, sep) ==
    IF parts = <<>> THEN <<>>
    ELSE IF Len(parts) = 1 THEN parts[1].v
    ELSE parts[1].v \o sep \o Join(Tail(parts), sep)

RECURSIVE TruthyOnly(_)
TruthyOnly(parts) ==
    IF parts = <<>> THEN <<>>
    ELSE IF Truthy(Head(parts)) THEN <<Head(parts)>> \o TruthyOnly(Tail(parts))
    ELSE TruthyOnly(Tail(parts))

_extract_address(address) ==
    IF ~Truthy(address) THEN Return(None)
    ELSE IF address.t = "str" THEN Return(address)
    ELSE IF address.t = "dict" THEN
        LET parts == [i \in 1..Len(AddressKeys) |-> Get(address.v, AddressKeys[i])]
            present == TruthyOnly(parts)
        IN  \* str.join raises TypeError on an item that is not a str
            IF \E i \in DOMAIN present : present[i].t # "str"
            THEN Raise("TypeError")
            ELSE Return(Str(Join(present, Chars(", "))))
    ELSE Return(None)

(***************************************************************************)
(* _extract_schema_item                                                    *)
(***************************************************************************)
_extract_schema_item(item) ==
    IF item.t # "dict" THEN Raise("AttributeError")          \* item.get
    ELSE
    LET raw_type == GetDefault(item.v, "@type", S(""))
    IN  IF raw_type.t # "str" THEN Raise("AttributeError")   \* .lower()
        ELSE
        LET item_type == Lower(raw_type.v)
        IN  IF \/ Contains(item_type, Chars("localbusiness"))
               \/ Contains(item_type, Chars("organization"))
               \/ Contains(item_type, Chars("business"))
            THEN
                LET addr == _extract_address(Get(item.v, "address"))
                IN  IF addr.exc # "" THEN addr
                    ELSE Return(
                        [businessName |-> Or(Get(item.v, "name"), Get(item.v, "legalName")),
                         description |-> Get(item.v, "description"),
                         address |-> addr.val,
                         industry |-> Or(Get(item.v, "category"), Get(item.v, "keywords"))])
            ELSE IF Contains(item_type, Chars("person"))
            THEN Return(
                    [businessName |-> Get(item.v, "name"),
                     description |-> Get(item.v, "description"),
                     industry |-> Or(Get(item.v, "jobTitle"), Get(item.v, "description"))])
            ELSE Return(EmptyDict)

(***************************************************************************)
(* extract_from_schema_org                                                 *)
(***************************************************************************)
\* The text of a script element is abstracted to what json.loads makes of it:
\* a decoded value, or InvalidJson for a text that is no JSON document.
InvalidJson == [t |-> "invalid"]

json_loads(string) ==
    IF string = None THEN Raise("TypeError")
    ELSE IF string = InvalidJson THEN Raise("JSONDecodeError")
    ELSE Return(string)

\* the body of "for item in data": the running dict after the items, and the
\* exception that ended the loop early, if any
RECURSIVE UpdateItems(_, _)
UpdateItems(schema_data, items) ==
    IF items = <<>> THEN Return(schema_data)
    ELSE LET r == _extract_schema_item(Head(items))
         IN  IF r.exc # "" THEN [exc |-> r.exc, val |-> schema_data]
             ELSE UpdateItems(Update(schema_data, r.val), Tail(items))

\* one iteration of "for script in soup.find_all(...)": the try block
ScriptStep(schema_data, string) ==
    LET data == json_loads(string)
    IN  IF data.exc # "" THEN [exc |-> data.exc, val |-> schema_data]
        ELSE IF data.val.t = "list" THEN UpdateItems(schema_data, data.val.v)
        ELSE IF data.val.t = "dict" THEN UpdateItems(schema_data, <<data.val>>)
        ELSE Return(schema_data)

Caught == {"JSONDecodeError", "AttributeError"}

RECURSIVE ScriptLoop(_, _)
ScriptLoop(schema_data, scripts) ==
    IF scripts = <<>> THEN Return(schema_data)
    ELSE LET r == ScriptStep(schema_data, Head(scripts))
         IN  IF r.exc = "" \/ r.exc \in Caught
             THEN ScriptLoop(r.val, Tail(scripts))     \* except ...: continue
             ELSE Raise(r.exc)

extract_from_schema_org(soup) == ScriptLoop(EmptyDict, soup.scripts)

(***************************************************************************)
(* extract_from_open_graph and extract_from_twitter_card                   *)
(*                                                                         *)
(* A meta element is the dict of its attributes (name, property, content), *)
(* each a str; soup.metas lists the meta elements in document order.       *)
(***************************************************************************)
OgMapping ==
    <<[key |-> Chars("og:title"), field |-> "businessName"],
      [key |-> Chars("og:site_name"), field |-> "businessName"],
      [key |-> Chars("og:description"), field |-> "description"],
      [key |-> Chars("og:image"), field |-> "logo"],
      [key |-> Chars("og:url"), field |-> "website"],
      [key |-> Chars("og:type"), field |-> "industry"]>>

TwitterMapping ==
    <<[key |-> Chars("twitter:title"), field |-> "businessName"],
      [key |-> Chars("twitter:description"), field |-> "description"],
      [key |-> Chars("twitter:image"), field |-> "logo"]>>

InMapping(mapping, key) == \E i \in DOMAIN mapping : mapping[i].key = key
FieldOf(mapping, key) ==
    mapping[CHOOSE i \in DOMAIN mapping : mapping[i].key = key].field

\* the loop without its "already set" test: the last matching element wins
RECURSIVE MetaLoopOverwrite(_, _, _, _)
MetaLoopOverwrite(data, metas, mapping, attr) ==
    IF metas = <<>> THEN data
    ELSE
    LET meta == Head(metas)
        key == Lower(GetDefault(meta, attr, S("")).v)
        content == Get(meta, "content")
        next ==
            IF InMapping(mapping, key) /\ Truthy(content)
            THEN Update(data, [k \in {FieldOf(mapping, key)} |-> content])
            ELSE data
    IN  MetaLoopOverwrite(next, Tail(metas), mapping, attr)

\* the loop shared by the two extractors: attr is the attribute read as the key
RECURSIVE MetaLoop(_, _, _, _)
MetaLoop(data, metas, mapping, attr) ==
    IF metas = <<>> THEN data
    ELSE
    LET meta == Head(metas)
        key == Lower(GetDefault(meta, attr, S("")).v)
        content == Get(meta, "content")
        next ==
            IF InMapping(mapping, key) /\ Truthy(content)
            THEN LET field == FieldOf(mapping, key)
                 IN  IF ~Truthy(Get(data, field))   \* don't overwrite if already set
                     THEN Update(data, [k \in {field} |-> content])
                     ELSE data
            ELSE data
    IN  MetaLoop(next, Tail(metas), mapping, attr)

\* soup.find_all('meta', property=True)
RECURSIVE FindAll(_, _)
FindAll(metas, keepSet) ==
    IF metas = <<>> THEN <<>>
    ELSE IF Head(metas) \in keepSet THEN <<Head(metas)>> \o FindAll(Tail(metas), keepSet)
    ELSE FindAll(Tail(metas), keepSet)

extract_from_open_graph(soup) ==
    LET found == FindAll(soup.metas, {m \in Range(soup.metas) : "property" \in DOMAIN m})
    IN  MetaLoop(EmptyDict, found, OgMapping, "property")

\* soup.find_all('meta', attrs={'name': re.compile(r'^twitter:', re.I)})
extract_from_twitter_card(soup) ==
    LET found == FindAll(soup.metas,
                    {m \in Range(soup.metas) :
                        /\ "name" \in DOMAIN m
                        /\ StartsWith(Lower(m["name"].v), Chars("twitter:"))})
    IN  MetaLoop(EmptyDict, found, TwitterMapping, "name")

(***************************************************************************)
(* extract_from_html                                                       *)
(*                                                                         *)
(* soup.title, soup.h1, soup.footer: None when the document has no such    *)
(* element, else the str its get_text() returns.  A Tag is always truthy.  *)
(***************************************************************************)
extract_from_html(soup, url) ==
    LET d0 == EmptyDict
        d1 == IF soup.title # None
              THEN Update(d0, [businessName |-> Str(Strip(soup.title.v))])
              ELSE d0
        descs == FindAll(soup.metas,
                    {m \in Range(soup.metas) :
                        "name" \in DOMAIN m /\ m["name"] = S("description")})
        d2 == IF descs # <<>>
              THEN Update(d1, [description |-> Get(descs[1], "content")])
              ELSE d1
        d3 == IF soup.h1 # None
              THEN Update(d2, [businessName |-> Str(Strip(soup.h1.v))])
              ELSE d2
    IN  d3

(***************************************************************************)
(* detect_industry_from_url                                                *)
(***************************************************************************)
industry_patterns ==
    <<[industry |-> "salon",
       patterns |-> <<"salon", "beauty", "hair", "nail", "spa", "barber">>],
      [industry |-> "restaurant",
       patterns |-> <<"restaurant", "cafe", "diner", "bistro", "eatery">>],
      [industry |-> "retail",
       patterns |-> <<"shop", "store", "boutique", "market", "retail">>],
      [industry |-> "fitness",
       patterns |-> <<"fitness", "gym", "yoga", "pilates", "crossfit">>],
      [industry |-> "professional",
       patterns |-> <<"law", "legal", "accounting", "consulting", "firm">>],
      [industry |-> "creative",
       patterns |-> <<"design", "creative", "agency", "studio", "art">>],
      [industry |-> "technology",
       patterns |-> <<"tech", "software", "app", "digital", "startup">>],
      [industry |-> "healthcare",
       patterns |-> <<"medical", "dental", "health", "clinic", "pharmacy">>],
      [industry |-> "education",
       patterns |-> <<"school", "education", "tutor", "learn", "academy">>]>>

\* any(pattern in url_lower for pattern in patterns)
AnyPattern(url_lower, patterns) ==
    \E i \in DOMAIN patterns : Contains(url_lower, Chars(patterns[i]))

\* for industry, patterns in industry_patterns.items(): from entry i on
RECURSIVE IndustryLoop(_, _)
IndustryLoop(url_lower, i) ==
    IF i > Len(industry_patterns) THEN None
    ELSE IF AnyPattern(url_lower, industry_patterns[i].patterns)
    THEN Str(Capitalize(Chars(industry_patterns[i].industry)))
    ELSE IndustryLoop(url_lower, i + 1)

\* the loop walking the taxonomy from its last entry to its first
RECURSIVE IndustryLoopReversed(_, _)
IndustryLoopReversed(url_lower, i) ==
    IF i < 1 THEN None
    ELSE IF AnyPattern(url_lower, industry_patterns[i].patterns)
    THEN Str(Capitalize(Chars(industry_patterns[i].industry)))
    ELSE IndustryLoopReversed(url_lower, i - 1)

detect_industry_reversed(url, soup) ==
    IndustryLoopReversed(Lower(url), Len(industry_patterns))

detect_industry_from_url(url, soup) == IndustryLoop(Lower(url), 1)

(***************************************************************************)
(* extract_address_from_text                                               *)
(*                                                                         *)
(* The regular expression is matched as re does it, by backtracking: each  *)
(* piece maps a position (the index of the next character to read) to the  *)
(* positions it can end at, in the order re tries them (a greedy repeat    *)
(* tries the longest run first, an alternation its branches left to        *)
(* right); the match is the first end position of the whole pattern.       *)
(***************************************************************************)
\* the ends F gives from each element of ps, one after the other
FlatMap(F, ps) ==
    LET f[k \in 0..Len(ps)] == IF k = 0 THEN <<>> ELSE f[k - 1] \o F[ps[k]]
    IN  f[Len(ps)]

\* the positions of s, the one after its last character included
Pos(s) == 1..(Len(s) + 1)

\* the length of the run of characters of cls that starts at p
RunLen(s, p, cls) ==
    LET stops == {q \in p..(Len(s) + 1) : q = Len(s) + 1 \/ s[q] \notin cls}
    IN  (CHOOSE q \in stops : \A r \in stops : q <= r) - p

\* [cls]+ , [cls]* , [cls] and a literal, from position p
PlusEnds(s, p, cls) ==
    LET n == RunLen(s, p, cls) IN [k \in 1..n |-> p + (n - k + 1)]
StarEnds(s, p, cls) == PlusEnds(s, p, cls) \o <<p>>
OneEnds(s, p, cls) == IF p <= Len(s) /\ s[p] \in cls THEN <<p + 1>> ELSE <<>>
LitEnds(s, p, w) == IF MatchAt(s, p, w) THEN <<p + Len(w)>> ELSE <<>>

\* (?:Street|St|Ave|Avenue|Blvd|Boulevard|Road|Rd|Lane|Ln|Drive|Dr)
StreetTypes ==
    <<"Street", "St", "Ave", "Avenue", "Blvd", "Boulevard", "Road", "Rd",
      "Lane", "Ln", "Drive", "Dr">>

StreetTypeEnds(s, p) ==
    FlatMap([w \in Range(StreetTypes) |-> LitEnds(s, p, Chars(w))], StreetTypes)

\* (?:X)? : the ends of X, then the empty match
Optional(ends, p) == ends \o <<p>>

\* the end positions of address_pattern matched from start, in re's order
AddressPatternEnds(s, start) ==
    LET D == {c \in Range(s) : IsDigit(c)}
        W == {c \in Range(s) : IsSpace(c)}
        U == {c \in Range(s) : IsAsciiUpper(c)}
        L == {c \in Range(s) : IsAsciiLower(c)}
        CW == W \cup {","}
        e1 == PlusEnds(s, start, D)                               \* \d+
        e2 == FlatMap([p \in Pos(s) |-> PlusEnds(s, p, W)], e1)           \* \s+
        e3 == FlatMap([p \in Pos(s) |-> OneEnds(s, p, U)], e2)            \* [A-Z]
        e4 == FlatMap([p \in Pos(s) |-> PlusEnds(s, p, L)], e3)           \* [a-z]+
        e5 == FlatMap([p \in Pos(s) |-> PlusEnds(s, p, W)], e4)           \* \s+
        e6 == FlatMap([p \in Pos(s) |-> StreetTypeEnds(s, p)], e5)
        e7 == FlatMap([p \in Pos(s) |-> PlusEnds(s, p, CW)], e6)          \* [,\s]+
        e8 == FlatMap([p \in Pos(s) |-> OneEnds(s, p, U)], e7)            \* [A-Z]
        e9 == FlatMap([p \in Pos(s) |-> PlusEnds(s, p, L)], e8)           \* [a-z]+
        State(p) ==                                               \* ,\s*[A-Z]{2}
            LET a == LitEnds(s, p, <<",">>)
                b == FlatMap([q \in Pos(s) |-> StarEnds(s, q, W)], a)
                c == FlatMap([q \in Pos(s) |-> OneEnds(s, q, U)], b)
            IN  FlatMap([q \in Pos(s) |-> OneEnds(s, q, U)], c)
        Zip(p) ==                                                 \* \s*\d{5}
            LET a == StarEnds(s, p, W)
                b == FlatMap([q \in Pos(s) |-> OneEnds(s, q, D)], a)
                c == FlatMap([q \in Pos(s) |-> OneEnds(s, q, D)], b)
                d == FlatMap([q \in Pos(s) |-> OneEnds(s, q, D)], c)
                e == FlatMap([q \in Pos(s) |-> OneEnds(s, q, D)], d)
            IN  FlatMap([q \in Pos(s) |-> OneEnds(s, q, D)], e)
        e10 == FlatMap([p \in Pos(s) |-> Optional(State(p), p)], e9)
        e11 == FlatMap([p \in Pos(s) |-> Optional(Zip(p), p)], e10)
    IN  e11

extract_address_from_text(soup) ==
    IF soup.footer = None THEN None
    ELSE
    LET text == soup.footer.v
        starts == {i \in 1..Len(text) : AddressPatternEnds(text, i) # <<>>}
    IN  IF starts = {} THEN None
        ELSE LET i == CHOOSE i \in starts : \A j \in starts : i <= j   \* matches[0]
             IN  Str(SubSeq(text, i, AddressPatternEnds(text, i)[1] - 1))

(***************************************************************************)
(* extract_metadata: the merge and the clean-up of the business name       *)
(***************************************************************************)
\* the dict literal assigned to merged_data
MergeData(schema, og, twitter, html, industry, address, requested) ==
    [businessName |->
        Or(Or(Or(Get(schema, "businessName"), Get(og, "businessName")),
              Get(twitter, "businessName")),
           Get(html, "businessName")),
     description |->
        Or(Or(Or(Get(schema, "description"), Get(og, "description")),
              Get(twitter, "description")),
           Get(html, "description")),
     industry |-> Or(Or(Get(schema, "industry"), Get(og, "industry")), industry),
     address |-> Or(Get(schema, "address"), address),
     website |-> Or(Get(og, "website"), Str(requested)),
     logo |-> Or(Or(Get(schema, "logo"), Get(og, "logo")), Get(twitter, "logo")),
     rawMetadata |->
        [schema |-> schema, openGraph |-> og, twitter |-> twitter, html |-> html,
         detectedIndustry |-> industry]]

\* SanitizeName with \w matching ASCII only (the pattern compiled with re.ASCII)
SanitizeNameAscii(name) ==
    Strip(Filter(name,
        {c \in Range(name) :
            \/ IsAsciiUpper(c) \/ IsAsciiLower(c) \/ IsDigit(c) \/ c = "_"
            \/ IsSpace(c) \/ c = "-" \/ c = "&"}))

\* SanitizeName with the two calls swapped: .strip() before re.sub
SanitizeNameStripFirst(name) ==
    LET stripped == Strip(name)
    IN  Filter(stripped,
            {c \in Range(stripped) : IsWord(c) \/ IsSpace(c) \/ c = "-" \/ c = "&"})

\* re.sub(r'[^\w\s\-\&]', '', name).strip()
SanitizeName(name) ==
    Strip(Filter(name,
        {c \in Range(name) : IsWord(c) \/ IsSpace(c) \/ c = "-" \/ c = "&"}))

\* re.sub(r'\s+', ' ', s): every run of whitespace becomes one space
RECURSIVE CollapseSpaces(_)
CollapseSpaces(s) ==
    IF s = <<>> THEN <<>>
    ELSE IF IsSpace(Head(s))
    THEN IF Len(s) > 1 /\ IsSpace(s[2]) THEN CollapseSpaces(Tail(s))
         ELSE <<" ">> \o CollapseSpaces(Tail(s))
    ELSE <<Head(s)>> \o CollapseSpaces(Tail(s))

\* CleanUp that also collapses the whitespace left inside the name
CleanUpCollapsing(data) ==
    IF Truthy(data.businessName)
    THEN [data EXCEPT !.businessName =
            Str(CollapseSpaces(SanitizeName(data.businessName.v)))]
    ELSE data

\* if merged_data['businessName']: merged_data['businessName'] = ...
CleanUp(data) ==
    IF Truthy(data.businessName)
    THEN [data EXCEPT !.businessName = Str(SanitizeName(data.businessName.v))]
    ELSE data

\* the record returned for an Instagram URL
InstagramMetadata(requested) ==
    [businessName |-> None,
     description |-> None,
     industry |-> S("Social Media"),
     address |-> None,
     website |-> Str(requested),
     logo |-> None,
     rawMetadata |-> [source |-> S("instagram"), oauthAvailable |-> TRUE]]

\* url.startswith(('http://', 'https://'))
ValidUrl(u) == StartsWith(u, Chars("http://")) \/ StartsWith(u, Chars("https://"))

\* "instagram.com" in url.lower()
IsInstagramUrl(u) == Contains(Lower(u), Chars("instagram.com"))

(***************************************************************************)
(* The requests the model serves.  A request is the URL posted and the     *)
(* document the web holds at that URL (what BeautifulSoup makes of the     *)
(* response text, should the fetch succeed).                               *)
(***************************************************************************)
MaxNameLen == 3     \* longest title drawn from NameChars
MaxScripts == 2     \* most JSON-LD script elements in a document
MaxItems == 2       \* most items in a JSON-LD list
MaxUrlParts == 2    \* most fragments after the scheme of a URL
MaxMetas == 2       \* most meta elements in a document of competing tags

SeqsUpTo(A, n) == UNION {[1..k -> A] : k \in 0..n}

EmptySoup ==
    [scripts |-> <<>>, metas |-> <<>>, title |-> None, h1 |-> None, footer |-> None]

PlainUrl == Chars("https://example.org")

\* --- titles and headings ---
NameChars == {"a", "_", " ", "-", "&", "!", E_ACUTE, PARTY}

JoesCafe == Chars("Joe's Caf") \o <<E_ACUTE, " ", PARTY>>
JoesPizzaHome == Chars("Joe's Pizza ") \o <<EM_DASH>> \o Chars(" Home")
JoesPizzaUrl == Chars("https://joespizza.example")

Names ==
    SeqsUpTo(NameChars, MaxNameLen)
        \cup {JoesCafe, JoesPizzaHome, Chars("Acme Salon"), Chars("  Bob & Co  ")}

NameRequests ==
    {[url |-> PlainUrl, page |-> [EmptySoup EXCEPT !.title = Str(n)]] : n \in Names}
    \cup {[url |-> PlainUrl, page |-> [EmptySoup EXCEPT !.h1 = Str(n)]] :
            n \in SeqsUpTo(NameChars, 1) \cup {JoesCafe}}
    \cup {[url |-> JoesPizzaUrl,
           page |-> [EmptySoup EXCEPT !.title = Str(JoesPizzaHome), !.footer = f]] :
            f \in {None, S("Call us"), S("Find us at 12 Main St, Springfield, IL 62704")}}

\* --- structured data ---
AddressValue(present) ==
    Dict([k \in present |->
            CASE k = "streetAddress" -> S("1 Main St")
              [] k = "addressLocality" -> S("Springfield")
              [] k = "addressRegion" -> S("IL")
              [] k = "postalCode" -> S("62704")
              [] k = "addressCountry" -> S("US")
              [] k = "@type" -> S("PostalAddress")])

Addresses ==
    {AddressValue(P) : P \in SUBSET Range(AddressKeys)}
    \cup {AddressValue(P \cup {"@type"}) : P \in SUBSET Range(AddressKeys)}
    \cup {None, S(""), S("1 Main St, Springfield"), List(<<S("1 Main St")>>),
          List(<<>>), PyInt(0),
          Dict([streetAddress |-> S(""), addressLocality |-> S("Springfield")]),
          Dict([streetAddress |-> None, addressCountry |-> S("US")]),
          Dict([streetAddress |-> S("2 Oak Ave"), postalCode |-> PyInt(62704)]),
          Dict([addressLocality |-> S("Paris"),
                addressCountry |-> Dict([name |-> S("FR")])])}

AcmeSalon ==
    Dict([k \in {"@type", "name", "description", "address", "category"} |->
            CASE k = "@type" -> S("LocalBusiness")
              [] k = "name" -> S("Acme Salon")
              [] k = "description" -> S("Hair and nails")
              [] k = "address" -> AddressValue({"streetAddress", "addressLocality"})
              [] k = "category" -> S("Beauty")])

AcmeLLC ==
    Dict([k \in {"@type", "legalName", "keywords"} |->
            CASE k = "@type" -> S("Organization")
              [] k = "legalName" -> S("Acme LLC")
              [] k = "keywords" -> S("hair, nails")])

JoPerson ==
    Dict([k \in {"@type", "name", "jobTitle"} |->
            CASE k = "@type" -> S("Person")
              [] k = "name" -> S("Jo (stylist)")
              [] k = "jobTitle" -> S("Stylist")])

Widget ==
    Dict([k \in {"@type", "name", "description"} |->
            CASE k = "@type" -> S("Product")
              [] k = "name" -> S("Widget")
              [] k = "description" -> S("A widget")])

\* "@type" given as a list of types
TypedByList ==
    Dict([k \in {"@type", "name"} |->
            CASE k = "@type" -> List(<<S("LocalBusiness"), S("Store")>>)
              [] k = "name" -> S("Corner Store")])

\* a business whose fields are empty strings and whose address has no component
EmptyFields ==
    Dict([k \in {"@type", "name", "description", "address"} |->
            CASE k = "@type" -> S("HomeAndConstructionBusiness")
              [] k = "name" -> S("")
              [] k = "description" -> S("")
              [] k = "address" -> AddressValue({"@type"})])

\* a postal code given as a JSON number
NumericZip ==
    Dict([k \in {"@type", "name", "address"} |->
            CASE k = "@type" -> S("LocalBusiness")
              [] k = "name" -> S("Zip Co")
              [] k = "address" ->
                    Dict([streetAddress |-> S("2 Oak Ave"),
                          postalCode |-> PyInt(62704)])])

\* a JSON object with no "@type"
Untyped == Dict([name |-> S("Nobody")])

Items == {AcmeSalon, AcmeLLC, JoPerson, Widget, TypedByList, EmptyFields,
          NumericZip, Untyped}

\* what a JSON-LD list may hold: objects, and values that are not objects
ListItems == {AcmeSalon, AcmeLLC, JoPerson, Widget, PyInt(7), None}

\* script.string of a script element with one decodable or undecodable text,
\* or None for an element with no text
SingleScripts == Items \cup {None, InvalidJson, S("just a string"), PyInt(42)}

ListScripts == {List(q) : q \in SeqsUpTo(ListItems, MaxItems)}

ScriptSeqs ==
    SeqsUpTo(SingleScripts, MaxScripts)
        \cup {<<l>> : l \in ListScripts}
        \cup {<<l, s>> : l \in ListScripts, s \in {AcmeLLC, JoPerson, None}}
        \cup {<<s, l>> : l \in ListScripts, s \in {AcmeSalon, InvalidJson}}

WithAddress(a) ==
    Dict([k \in {"@type", "name", "address"} |->
            CASE k = "@type" -> S("LocalBusiness")
              [] k = "name" -> S("Acme Salon")
              [] k = "address" -> a])

SchemaRequests ==
    {[url |-> PlainUrl, page |-> [EmptySoup EXCEPT !.scripts = q]] : q \in ScriptSeqs}
    \cup {[url |-> Chars("https://acmesalon.com"),
           page |-> [EmptySoup EXCEPT !.scripts = <<WithAddress(a)>>]] :
            a \in Addresses}

\* --- URLs ---
UrlParts ==
    {"salon", "SALON", "studio", "cafe", "shop", "gym", "law", "startup",
     "clinic", "academy", "sp", "a", "instagram.com"}

RECURSIVE Concat(_)
Concat(parts) ==
    IF parts = <<>> THEN <<>> ELSE Chars(Head(parts)) \o Concat(Tail(parts))

Urls ==
    {Chars("https://") \o Concat(q) : q \in SeqsUpTo(UrlParts, MaxUrlParts)}
    \cup {Chars(u) : u \in
            {"http://salonstudio.com", "https://www.instagram.com/acme",
             "https://Instagram.com/acme", "http://instagram.com",
             "https://example.org/?ref=instagram.com",
             "https://notinstagram.community/joe",
             "ftp://example.org", "example.org", "HTTPS://example.org", "",
             "www.instagram.com/acme"}}

UrlRequests == {[url |-> u, page |-> EmptySoup] : u \in Urls}

\* --- documents in which several sources supply the same field ---
Meta(attr, key, content) ==
    [k \in {attr, "content"} |-> IF k = attr THEN S(key) ELSE S(content)]

OgFull ==
    <<Meta("property", "og:title", "OG Title!"),
      Meta("property", "og:description", "OG description"),
      Meta("property", "og:image", "https://cdn.example/og.png"),
      Meta("property", "og:url", "https://canonical.example/"),
      Meta("property", "og:type", "website")>>

TwitterFull ==
    <<Meta("name", "twitter:title", "Card Title"),
      Meta("name", "Twitter:Description", "Card description"),
      Meta("name", "twitter:image", "https://cdn.example/card.png")>>

MergeRequests ==
    {[url |-> u,
      page |-> [scripts |-> sc, metas |-> og \o tw \o ds, title |-> ti, h1 |-> h,
                footer |-> fo]] :
        u \in {PlainUrl, Chars("https://bestcafe.com")},
        sc \in {<<>>, <<AcmeSalon>>, <<EmptyFields>>, <<AcmeLLC>>},
        og \in {<<>>, OgFull, <<Meta("property", "og:site_name", "Site Name")>>},
        tw \in {<<>>, TwitterFull},
        ds \in {<<>>, <<Meta("name", "description", "Meta description")>>,
                <<Meta("name", "description", "")>>,
                <<[name |-> S("description")]>>},
        ti \in {None, S("Page Title | Home"), S("")},
        h \in {None, S(" Heading ")},
        fo \in {None, S("Visit 12 Main St, Springfield"), S("All rights reserved")}}

\* --- documents whose meta elements compete for the same field ---
MetaElements ==
    {Meta("property", "og:title", "First Title"),
     Meta("property", "OG:Title", "Second Title"),
     Meta("property", "og:site_name", "Site Name"),
     Meta("property", "og:title", ""),
     [k \in {"property"} |-> S("og:title")],
     Meta("property", "og:description", "OG description"),
     Meta("property", "fb:app_id", "12345"),
     Meta("name", "twitter:title", "Card Title"),
     Meta("name", "Twitter:Title", "Other Card"),
     Meta("name", "twitter:title", ""),
     Meta("name", "twitter:description", "Card description")}

MetaRequests ==
    {[url |-> PlainUrl, page |-> [EmptySoup EXCEPT !.metas = q]] :
        q \in SeqsUpTo(MetaElements, MaxMetas)}

Requests ==
    NameRequests \cup SchemaRequests \cup UrlRequests \cup MergeRequests
        \cup MetaRequests

(***************************************************************************)
(* extract_metadata as a state machine                                     *)
(***************************************************************************)
VARIABLES
    pc,                 \* where the handler is
    url,                \* request.url
    page,               \* the document the web holds at url
    soup,               \* the parsed response, once fetched
    schema_data, og_data, twitter_data, html_data,
    detected_industry, detected_address,
    merged_data,
    response,           \* the BusinessMetadata returned
    status              \* the HTTP status of the reply, 0 while there is none

vars == <<pc, url, page, soup, schema_data, og_data, twitter_data, html_data,
          detected_industry, detected_address, merged_data, response, status>>

extracted == <<schema_data, og_data, twitter_data, html_data, detected_industry,
               detected_address>>

Init ==
    /\ pc = "idle"
    /\ url = <<>>
    /\ page = None
    /\ soup = None
    /\ schema_data = None
    /\ og_data = None
    /\ twitter_data = None
    /\ html_data = None
    /\ detected_industry = None
    /\ detected_address = None
    /\ merged_data = None
    /\ response = None
    /\ status = 0

\* POST /extract arrives
Receive ==
    /\ pc = "idle"
    /\ \E r \in Requests : url' = r.url /\ page' = r.page
    /\ pc' = "received"
    /\ UNCHANGED <<soup, extracted, merged_data, response, status>>

\* raise HTTPException(status_code=...)
Fail(code) ==
    /\ pc' = "failed"
    /\ status' = code
    /\ UNCHANGED <<url, page, soup, extracted, merged_data, response>>

\* if not url.startswith(('http://', 'https://')): raise 400
RejectUrl ==
    /\ pc = "received"
    /\ ~ValidUrl(url)
    /\ Fail(400)

\* if "instagram.com" in url.lower(): return the minimal record
BypassInstagram ==
    /\ pc = "received"
    /\ ValidUrl(url)
    /\ IsInstagramUrl(url)
    /\ response' = InstagramMetadata(url)
    /\ pc' = "returned"
    /\ status' = 200
    /\ UNCHANGED <<url, page, soup, extracted, merged_data>>

Fetching == pc = "received" /\ ValidUrl(url) /\ ~IsInstagramUrl(url)

\* client.get(url), raise_for_status() and BeautifulSoup(response.text)
FetchPage ==
    /\ Fetching
    /\ soup' = page
    /\ pc' = "fetched"
    /\ UNCHANGED <<url, page, extracted, merged_data, response, status>>

\* except httpx.TimeoutException
FetchTimeout == Fetching /\ Fail(408)

\* except httpx.HTTPStatusError as e: the upstream status is passed on
FetchHttpError == Fetching /\ \E code \in {404} : Fail(code)

\* any other failure of the fetch: except Exception
FetchError == Fetching /\ Fail(500)

\* the four extractors, the classifier and the sniffer; an exception that
\* escapes extract_from_schema_org is caught by "except Exception"
Extract ==
    /\ pc = "fetched"
    /\ LET schema == extract_from_schema_org(soup)
       IN  IF schema.exc # ""
           THEN Fail(500)
           ELSE /\ schema_data' = schema.val
                /\ og_data' = extract_from_open_graph(soup)
                /\ twitter_data' = extract_from_twitter_card(soup)
                /\ html_data' = extract_from_html(soup, url)
                /\ detected_industry' = detect_industry_from_url(url, soup)
                /\ detected_address' = extract_address_from_text(soup)
                /\ pc' = "extracted"
                /\ UNCHANGED <<url, page, soup, merged_data, response, status>>

\* merged_data = {...}
Merge ==
    /\ pc = "extracted"
    /\ merged_data' = MergeData(schema_data, og_data, twitter_data, html_data,
                                detected_industry, detected_address, url)
    /\ pc' = "merged"
    /\ UNCHANGED <<url, page, soup, extracted, response, status>>

\* the clean-up of the name and return BusinessMetadata(**merged_data)
Respond ==
    /\ pc = "merged"
    /\ merged_data' = CleanUp(merged_data)
    /\ response' = CleanUp(merged_data)
    /\ pc' = "returned"
    /\ status' = 200
    /\ UNCHANGED <<url, page, soup, extracted>>

\* nothing outlives the call
Finish ==
    /\ pc \in {"returned", "failed"}
    /\ pc' = "idle"
    /\ url' = <<>>
    /\ page' = None
    /\ soup' = None
    /\ schema_data' = None
    /\ og_data' = None
    /\ twitter_data' = None
    /\ html_data' = None
    /\ detected_industry' = None
    /\ detected_address' = None
    /\ merged_data' = None
    /\ response' = None
    /\ status' = 0

Next ==
    \/ Receive
    \/ RejectUrl
    \/ BypassInstagram
    \/ FetchPage
    \/ FetchTimeout
    \/ FetchHttpError
    \/ FetchError
    \/ Extract
    \/ Merge
    \/ Respond
    \/ Finish

Spec == Init /\ [][Next]_vars

(***************************************************************************)
(* Properties                                                              *)
(***************************************************************************)
\* the first candidate that is not None, None when there is none
FirstNonNull(cands) ==
    LET set == {i \in DOMAIN cands : cands[i] # None}
    IN  IF set = {} THEN None
        ELSE cands[CHOOSE i \in set : \A j \in set : i <= j]

\* C1: every merged field is the first non-null candidate in its fixed source
\* order (structured data, Open Graph, Card, generic HTML for businessName and
\* description; structured data, Open Graph, classifier for industry;
\* structured data, sniffer for address; Open Graph, Card for logo; Open Graph
\* URL, else the requested URL, for website).  The name is compared before its
\* sanitization.
C1_FirstNonNullWins ==
    pc = "merged" =>
        /\ merged_data.businessName =
            FirstNonNull(<<Get(schema_data, "businessName"), Get(og_data, "businessName"),
                           Get(twitter_data, "businessName"), Get(html_data, "businessName")>>)
        /\ merged_data.description =
            FirstNonNull(<<Get(schema_data, "description"), Get(og_data, "description"),
                           Get(twitter_data, "description"), Get(html_data, "description")>>)
        /\ merged_data.industry =
            FirstNonNull(<<Get(schema_data, "industry"), Get(og_data, "industry"),
                           detected_industry>>)
        /\ merged_data.address =
            FirstNonNull(<<Get(schema_data, "address"), detected_address>>)
        /\ merged_data.logo =
            FirstNonNull(<<Get(og_data, "logo"), Get(twitter_data, "logo")>>)
        /\ merged_data.website = FirstNonNull(<<Get(og_data, "website"), Str(url)>>)
        /\ merged_data.website # None

\* a structured-data block json.loads cannot make an object or a list of
BadBlock(b) == b = None \/ b = InvalidJson \/ b.t \notin {"dict", "list"}

RECURSIVE WithoutBadBlocks(_)
WithoutBadBlocks(scripts) ==
    IF scripts = <<>> THEN <<>>
    ELSE IF BadBlock(Head(scripts)) THEN WithoutBadBlocks(Tail(scripts))
    ELSE <<Head(scripts)>> \o WithoutBadBlocks(Tail(scripts))

\* C2: a structured-data block that is malformed, has no text or decodes to
\* no object is skipped: once the page is fetched the handler does not fail,
\* and the structured-data candidates are those of the remaining blocks.
C2_BadBlocksSkipped ==
    (soup # None /\ pc # "fetched") =>
        LET rest == extract_from_schema_org(
                        [soup EXCEPT !.scripts = WithoutBadBlocks(soup.scripts)])
        IN  rest.exc = "" => (pc # "failed" /\ schema_data = rest.val)

NullOrNonEmpty(x) == x = None \/ (x.t = "str" /\ Len(x.v) > 0)

\* C3: each of the six fields of a returned record is null or a non-empty
\* string.
C3_NullOrNonEmptyFields ==
    pc = "returned" =>
        /\ NullOrNonEmpty(response.businessName)
        /\ NullOrNonEmpty(response.description)
        /\ NullOrNonEmpty(response.industry)
        /\ NullOrNonEmpty(response.address)
        /\ NullOrNonEmpty(response.website)
        /\ NullOrNonEmpty(response.logo)

\* the characters re.sub keeps: word characters (letters and digits of any
\* script, and the underscore), whitespace, hyphen and ampersand
Allowed(c) == IsWord(c) \/ IsSpace(c) \/ c = "-" \/ c = "&"

\* alphanumeric in the ASCII sense, whitespace, hyphen or ampersand
AllowedAscii(c) ==
    \/ IsAsciiUpper(c) \/ IsAsciiLower(c) \/ IsDigit(c)
    \/ IsSpace(c) \/ c = "-" \/ c = "&"

JoesCafeSanitized == Chars("Joes Caf") \o <<E_ACUTE>>

\* out is kept with the whitespace at its two ends removed
Trimmed(kept, out) ==
    /\ out = <<>> \/ (~IsSpace(out[1]) /\ ~IsSpace(out[Len(out)]))
    /\ \E a \in 0..Len(kept) :
        /\ a + Len(out) <= Len(kept)
        /\ SubSeq(kept, a + 1, a + Len(out)) = out
        /\ \A i \in 1..Len(kept) : (i <= a \/ i > a + Len(out)) => IsSpace(kept[i])

\* C4 as claimed: a sanitized businessName holds only ASCII letters and digits,
\* whitespace, hyphen and ampersand, and "Joe's Cafe(acute) (emoji)" gives
\* "Joes Caf".
C4_AsciiOnly ==
    [][(pc = "merged" /\ pc' = "returned" /\ Truthy(merged_data.businessName)) =>
        /\ \A i \in DOMAIN response'.businessName.v :
                AllowedAscii(response'.businessName.v[i])
        /\ merged_data.businessName.v = JoesCafe =>
                response'.businessName.v = Chars("Joes Caf")]_vars

\* C4 as amended: the sanitized name is the characters of the merged name
\* that are word characters in the Unicode sense (letters and digits of any
\* script, and the underscore), whitespace, hyphens or ampersands, in order,
\* with the whitespace at the two ends removed; "Joe's Cafe(acute) (emoji)"
\* gives "Joes Cafe(acute)".
C4_UnicodeWordChars ==
    [][(pc = "merged" /\ pc' = "returned" /\ Truthy(merged_data.businessName)) =>
        /\ response'.businessName.t = "str"
        /\ \A i \in DOMAIN response'.businessName.v :
                Allowed(response'.businessName.v[i])
        /\ Trimmed(SelectSeq(merged_data.businessName.v, Allowed),
                   response'.businessName.v)
        /\ merged_data.businessName.v = JoesCafe =>
                response'.businessName.v = JoesCafeSanitized]_vars

C4_Witness ==
    /\ pc = "returned"
    /\ soup # None
    /\ soup.title = Str(JoesCafe)
    /\ response.businessName = Str(JoesCafeSanitized)

\* a name of letters and digits with single interior spaces
AlnumSingleSpaces(s) ==
    /\ s # <<>>
    /\ \A i \in DOMAIN s :
        \/ IsAsciiLower(s[i]) \/ IsAsciiUpper(s[i]) \/ IsDigit(s[i])
        \/ (s[i] = " " /\ 1 < i /\ i < Len(s) /\ s[i - 1] # " ")

\* C5: sanitizing an already sanitized name returns it unchanged, and a name
\* of letters and digits with single interior spaces is returned as it is.
C5_SanitizeIdempotent ==
    /\ (pc = "returned" /\ response.businessName.t = "str") =>
            CleanUp(response) = response
    /\ (pc = "merged" /\ merged_data.businessName.t = "str") =>
            /\ CleanUp(CleanUp(merged_data)) = CleanUp(merged_data)
            /\ AlnumSingleSpaces(merged_data.businessName.v) =>
                    CleanUp(merged_data) = merged_data

C5_Witness ==
    /\ pc = "returned"
    /\ soup # None
    /\ soup.title = S("  Bob & Co  ")
    /\ response.businessName = S("Bob & Co")

\* a component an address object holds: present, not null and not empty
Present(a, k) == k \in DOMAIN a.v /\ a.v[k].t = "str" /\ a.v[k].v # <<>>

\* what the formatter is to return: a string as it is, null for null, and for
\* an object its present components in the fixed order joined by ", ", null
\* when none is present
ClaimedAddress(a) ==
    IF a = None THEN None
    ELSE IF a.t = "str" THEN a
    ELSE
    LET joined[n \in 0..Len(AddressKeys)] ==
            IF n = 0 THEN <<>>
            ELSE IF ~Present(a, AddressKeys[n]) THEN joined[n - 1]
            ELSE IF joined[n - 1] = <<>> THEN a.v[AddressKeys[n]].v
            ELSE joined[n - 1] \o <<",", " ">> \o a.v[AddressKeys[n]].v
    IN  IF \A n \in DOMAIN AddressKeys : ~Present(a, AddressKeys[n])
        THEN None
        ELSE Str(joined[Len(AddressKeys)])

\* the document holds one business item, and the claim covers its address: a
\* non-empty string, null, or an object whose components are strings or null
OneAddressed ==
    /\ soup # None
    /\ Len(soup.scripts) = 1
    /\ soup.scripts[1].t = "dict"
    /\ soup.scripts[1] = WithAddress(Get(soup.scripts[1].v, "address"))
    /\ LET a == Get(soup.scripts[1].v, "address")
       IN  \/ a.t = "None"
           \/ a.t = "str" /\ a.v # <<>>
           \/ /\ a.t = "dict"
              /\ \A k \in DOMAIN a.v : a.v[k].t \in {"None", "str"}

\* C6: the address of a structured item is formatted as the formatter's
\* contract says (string verbatim, null for null, present components joined
\* in order by ", ", null for an object with no component).
C6_AddressFormatted ==
    (pc = "extracted" /\ OneAddressed) =>
        schema_data.address = ClaimedAddress(Get(soup.scripts[1].v, "address"))

\* scenario B: no structured data, no preview tags, no h1, the given title,
\* fetched from https://joespizza.example
ScenarioB ==
    /\ soup # None
    /\ url = JoesPizzaUrl
    /\ soup.title = Str(JoesPizzaHome)
    /\ soup.scripts = <<>> /\ soup.metas = <<>> /\ soup.h1 = None

Host(u) ==
    LET from == (CHOOSE i \in 1..Len(u) : MatchAt(u, i, Chars("://"))
                    /\ \A j \in 1..(i - 1) : ~MatchAt(u, j, Chars("://"))) + 3
        ends == {i \in from..Len(u) : u[i] \in {"/", "?", "#"}} \cup {Len(u) + 1}
        to == (CHOOSE i \in ends : \A j \in ends : i <= j) - 1
        ats == {i \in from..to : u[i] = "@"}
        hfrom == IF ats = {} THEN from
                 ELSE (CHOOSE i \in ats : \A j \in ats : j <= i) + 1
        colons == {i \in hfrom..to : u[i] = ":"} \cup {to + 1}
        hto == (CHOOSE i \in colons : \A j \in colons : i <= j) - 1
    IN  Lower(SubSeq(u, hfrom, hto))

EndsWith(s, w) == Len(w) <= Len(s) /\ MatchAt(s, Len(s) - Len(w) + 1, w)

HostIsInstagram(u) ==
    Host(u) = Chars("instagram.com") \/ EndsWith(Host(u), Chars(".instagram.com"))

\* the handler returned without fetching the page
Bypassed == pc = "returned" /\ soup = None

\* C8: a valid URL is bypassed exactly when its host is the social-network
\* domain, and the bypass returns the minimal record (no name, no description,
\* industry "Social Media", the original URL, a provenance flag).
C8_RoutedByHost ==
    (pc \notin {"idle", "received"} /\ ValidUrl(url)) =>
        IF HostIsInstagram(url)
        THEN /\ Bypassed
             /\ response.businessName = None
             /\ response.description = None
             /\ response.industry = S("Social Media")
             /\ response.website = Str(url)
             /\ response.rawMetadata.source = S("instagram")
        ELSE ~Bypassed

\* the taxonomy in its fixed order, with the labels as they are returned
Taxonomy ==
    <<[label |-> "Salon", keywords |-> {"salon", "beauty", "hair", "nail", "spa", "barber"}],
      [label |-> "Restaurant", keywords |-> {"restaurant", "cafe", "diner", "bistro", "eatery"}],
      [label |-> "Retail", keywords |-> {"shop", "store", "boutique", "market", "retail"}],
      [label |-> "Fitness", keywords |-> {"fitness", "gym", "yoga", "pilates", "crossfit"}],
      [label |-> "Professional", keywords |-> {"law", "legal", "accounting", "consulting", "firm"}],
      [label |-> "Creative", keywords |-> {"design", "creative", "agency", "studio", "art"}],
      [label |-> "Technology", keywords |-> {"tech", "software", "app", "digital", "startup"}],
      [label |-> "Healthcare", keywords |-> {"medical", "dental", "health", "clinic", "pharmacy"}],
      [label |-> "Education", keywords |-> {"school", "education", "tutor", "learn", "academy"}]>>

ClaimedIndustry(u) ==
    LET low == Lower(u)
        hits == {i \in DOMAIN Taxonomy :
                    \E k \in Taxonomy[i].keywords : Contains(low, Chars(k))}
    IN  IF hits = {} THEN None
        ELSE S(Taxonomy[CHOOSE i \in hits : \A j \in hits : i <= j].label)

RECURSIVE ItemsOf(_)
ItemsOf(scripts) ==
    IF scripts = <<>> THEN <<>>
    ELSE (IF Head(scripts).t = "list" THEN Head(scripts).v ELSE <<Head(scripts)>>)
            \o ItemsOf(Tail(scripts))

\* every block decodes to an object or a list, and every item is classified
\* without an error
AllItemsClassified ==
    /\ \A i \in DOMAIN soup.scripts : ~BadBlock(soup.scripts[i])
    /\ \A i \in DOMAIN ItemsOf(soup.scripts) :
            _extract_schema_item(ItemsOf(soup.scripts)[i]).exc = ""

\* the value an item supplies for a field, None when it has none
Supplied(item, f) == Get(_extract_schema_item(item).val, f)

LastNonNull(items, f) ==
    LET set == {i \in DOMAIN items : Supplied(items[i], f) # None}
    IN  IF set = {} THEN None
        ELSE Supplied(items[CHOOSE i \in set : \A j \in set : j <= i], f)

\* C10: each field of the structured-data candidates is the value of the last
\* item, in document order, that has a non-null value for it.
C10_LastNonNullWins ==
    (pc = "extracted" /\ AllItemsClassified) =>
        \A f \in {"businessName", "description", "address", "industry"} :
            Get(schema_data, f) = LastNonNull(ItemsOf(soup.scripts), f)

(***************************************************************************)
(* C11: first match per field in the Open Graph and Twitter Card scans     *)
(***************************************************************************)
\* the tags the documentation lists for each output field
OgTags ==
    [businessName |-> {Chars("og:title"), Chars("og:site_name")},
     description |-> {Chars("og:description")},
     logo |-> {Chars("og:image")},
     website |-> {Chars("og:url")},
     industry |-> {Chars("og:type")}]

TwitterTags ==
    [businessName |-> {Chars("twitter:title")},
     description |-> {Chars("twitter:description")},
     logo |-> {Chars("twitter:image")}]

HasContent(meta) == "content" \in DOMAIN meta
HasText(meta) == HasContent(meta) /\ meta["content"].v # <<>>

\* positions, in document order, of the elements that name one of tags in
\* attr (whatever the letter case) and whose position is in eligible
Candidates(metas, attr, tags, eligible) ==
    {i \in DOMAIN metas :
        /\ attr \in DOMAIN metas[i]
        /\ Lower(metas[i][attr].v) \in tags
        /\ i \in eligible}

Least(ps) == CHOOSE i \in ps : \A j \in ps : i <= j

\* data has exactly the fields of tagsOf with a candidate, each holding the
\* content of its first candidate
FirstMatchPerField(data, metas, attr, tagsOf, eligible) ==
    /\ \A f \in DOMAIN tagsOf :
        LET ps == Candidates(metas, attr, tagsOf[f], eligible)
        IN  IF ps = {} THEN f \notin DOMAIN data
            ELSE f \in DOMAIN data /\ data[f] = metas[Least(ps)]["content"]
    /\ DOMAIN data \subseteq DOMAIN tagsOf

WithContent == {i \in DOMAIN soup.metas : HasContent(soup.metas[i])}
WithText == {i \in DOMAIN soup.metas : HasText(soup.metas[i])}

\* C11 as stated: each field of the Open Graph and Twitter Card results
\* holds the content of the first element, in document order, that maps to
\* the field and has a content attribute; a field with no such element is
\* absent.
C11_FirstPresentContentWins ==
    pc = "extracted" =>
        /\ FirstMatchPerField(og_data, soup.metas, "property", OgTags, WithContent)
        /\ FirstMatchPerField(twitter_data, soup.metas, "name", TwitterTags,
                              WithContent)

\* C11 amended: each field of the Open Graph and Twitter Card results holds
\* the content of the first element, in document order, that maps to the
\* field and has a non-empty content attribute; later elements for the field
\* never change it, and a field with no such element is absent.
C11_FirstNonEmptyContentWins ==
    pc = "extracted" =>
        /\ FirstMatchPerField(og_data, soup.metas, "property", OgTags, WithText)
        /\ FirstMatchPerField(twitter_data, soup.metas, "name", TwitterTags,
                              WithText)

\* og:title then og:site_name, both for businessName: the first one is kept
C11_Witness ==
    /\ pc = "extracted"
    /\ soup.metas = <<Meta("property", "og:title", "First Title"),
                      Meta("property", "og:site_name", "Site Name")>>
    /\ og_data = [k \in {"businessName"} |-> S("First Title")]
    /\ twitter_data = EmptyDict

====
